---- MODULE Spec2Model ----
(***************************************************************************)
(* Model of the Azure Kinect point-cloud sample (kinect.cpp): one kinect   *)
(* object that is constructed, runs the per-frame loop update/draw/show    *)
(* and is destroyed.  The camera SDK and the display library are external: *)
(* their results (capture fetch result, presence of the color and depth    *)
(* images, success of create/transform calls, the polled key) are inputs   *)
(* chosen nondeterministically.  A native handle is identified by its kind *)
(* and the number of the frame that acquired it; the member variables hold *)
(* the number (0 is nullptr) and `live` holds the handles not yet released.*)
(* An SDK call on a released handle, on a closed device or on a destroyed  *)
(* transformation is undefined: it may abort the process ("crashed"), be   *)
(* rejected by the SDK's handle validation, or go through.                 *)
(***************************************************************************)
EXTENDS Integers, Sequences, FiniteSets, TLC

\* Number of loop iterations explored.
MaxFrames == 3

\* Largest image width and height explored.
MaxDim == 2

NULL == 0

VARIABLES
    pc,                       \* position of the single thread
    frame,                    \* number of capture fetches issued so far
    device,                   \* "null" | "open" | "closed"
    cameras,                  \* "off" | "started" | "stopped"
    transformation,           \* "null" | "valid" | "destroyed"
    capture,                  \* k4a_capture_t member
    color_image,              \* k4a_image_t members
    depth_image,
    transformed_depth_image,
    xyz_image,
    live,                     \* handles acquired and not yet released
    color,                    \* cv::Mat members
    transformed_depth,
    xyz,
    result,                   \* result of this frame's capture fetch
    hasColor,                 \* the fetched capture holds a color image
    hasDepth,                 \* the fetched capture holds a depth image
    events,                   \* SDK/display calls issued in this frame, in order
    teardown,                 \* teardown calls issued so far, in order
    failedCall,               \* first SDK call that reported a failure
    thrown,                   \* an exception has been thrown
    doubleRelease,            \* a release was issued on a released handle
    timedOut,                 \* a capture fetch has returned a timeout
    color_size,               \* <<width, height>> of the fetched capture's color image
    transformed_size,         \* <<width, height>> the transformed depth image was created with
    xyz_size,                 \* <<width, height>> the point-cloud image was created with
    installed,                \* device count read at startup (-1 before it is read)
    polled                    \* outcome of this iteration's exit poll

handles == <<capture, color_image, depth_image, transformed_depth_image, xyz_image>>
mats    == <<color, transformed_depth, xyz>>
session == <<device, cameras, transformation>>
inputs  == <<result, hasColor, hasDepth>>
hist    == <<teardown, failedCall, thrown, doubleRelease, timedOut>>
sizes   == <<color_size, transformed_size, xyz_size>>
vars    == <<pc, frame, session, handles, live, mats, inputs, events, hist, sizes,
             installed, polled>>

\* Image sizes the SDK may deliver; <<0, 0>> is what the size accessors
\* report for a null handle.
Sizes  == (1..MaxDim) \X (1..MaxDim)
NoSize == <<0, 0>>

\* k4a_image_get_width_pixels / k4a_image_get_height_pixels on member h whose
\* image has size sz: a released handle yields an arbitrary value.
ImageSize(kind, h, sz) ==
    IF h = NULL THEN {NoSize}
    ELSE IF <<kind, h>> \in live THEN {sz}
    ELSE Sizes \cup {NoSize}

\* Number of times call e was issued in this frame.
Count(e) == Cardinality({i \in DOMAIN events : events[i] = e})

\* cv::Mat: the frame whose image it was converted from (0: empty Mat) and
\* the number of times the 8-bit remap was applied to it.
EmptyMat == [src |-> 0, remaps |-> 0]
empty(m) == m.src = 0

IsLive(kind, h)  == <<kind, h>> \in live
IsStale(kind, h) == h # NULL /\ ~IsLive(kind, h)

Did(e) == \E i \in DOMAIN events : events[i] = e

\* Positions inside kinect::run().
UpdatePcs == {"update_frame", "update_color", "update_depth",
              "update_transformation", "update_point_cloud", "release_capture"}
DrawPcs   == {"draw_color", "draw_depth", "draw_transformation", "draw_point_cloud"}
ShowPcs   == {"show_color", "show_transformation", "show_point_cloud"}
RunningPcs == UpdatePcs \cup DrawPcs \cup ShowPcs \cup {"wait_key"}

Init ==
    /\ pc = "construct"
    /\ frame = 0
    /\ device = "null"
    /\ cameras = "off"
    /\ transformation = "null"
    /\ capture = NULL
    /\ color_image = NULL
    /\ depth_image = NULL
    /\ transformed_depth_image = NULL
    /\ xyz_image = NULL
    /\ live = {}
    /\ color = EmptyMat
    /\ transformed_depth = EmptyMat
    /\ xyz = EmptyMat
    /\ result = "none"
    /\ hasColor = FALSE
    /\ hasDepth = FALSE
    /\ events = <<>>
    /\ teardown = <<>>
    /\ failedCall = "none"
    /\ thrown = FALSE
    /\ doubleRelease = FALSE
    /\ timedOut = FALSE
    /\ color_size = NoSize
    /\ transformed_size = NoSize
    /\ xyz_size = NoSize
    /\ installed = -1
    /\ polled = "none"

\* K4A_RESULT_CHECK / throw: the first failure is remembered.
Fail(call) == IF failedCall = "none" THEN call ELSE failedCall

\* The process aborts inside an undefined SDK call `ev`.
Crash(ev) ==
    /\ pc' = "crashed"
    /\ events' = Append(events, ev)

(***************************************************************************)
(* kinect::kinect -> initialize -> initialize_sensor, initialize_viewer.   *)
(* An exception leaving the constructor means the object never existed:    *)
(* its destructor is not run and the program is over.                      *)
(***************************************************************************)
\* The device-count check left out.
NoDevice_unchecked(device_count) == FALSE

\* initialize_sensor: no device is installed.
NoDevice(device_count) == device_count = 0

construct ==
    /\ pc = "construct"
    /\ UNCHANGED <<sizes, polled>>
    /\ UNCHANGED <<frame, handles, live, mats, inputs, teardown, doubleRelease, timedOut>>
    /\ \E device_count \in 0..1, open_ok \in BOOLEAN, start_ok \in BOOLEAN,
          create_ok \in BOOLEAN :
        /\ installed' = device_count
        /\ IF NoDevice(device_count) THEN
               /\ events' = <<"get_installed_count">>
               /\ failedCall' = Fail("no_device")
               /\ thrown' = TRUE
               /\ pc' = "done"
               /\ UNCHANGED session
           ELSE IF ~open_ok THEN
               /\ events' = <<"get_installed_count", "device_open">>
               /\ failedCall' = Fail("device_open")
               /\ thrown' = TRUE
               /\ pc' = "done"
               /\ UNCHANGED session
           ELSE IF ~start_ok THEN
               /\ events' = <<"get_installed_count", "device_open", "start_cameras">>
               /\ failedCall' = Fail("start_cameras")
               /\ thrown' = TRUE
               /\ device' = "open"
               /\ pc' = "done"
               /\ UNCHANGED <<cameras, transformation>>
           ELSE
               /\ events' = <<"get_installed_count", "device_open", "start_cameras",
                              "get_calibration", "transformation_create">>
               /\ device' = "open"
               /\ cameras' = "started"
               /\ transformation' = IF create_ok THEN "valid" ELSE "null"
               /\ failedCall' = IF create_ok THEN failedCall
                                ELSE Fail("transformation_create")
               /\ thrown' = thrown
               /\ pc' = "update_frame"

(***************************************************************************)
(* kinect::finalize: destroy the transformation, stop the cameras, close   *)
(* the device.  There is no guard: run a second time (after the teardown   *)
(* of a capture timeout) the calls act on a closed device, which is        *)
(* undefined and may abort inside any of them.                             *)
(***************************************************************************)
\* finalize without the stop of the cameras.
FinalizeCalls_no_stop == <<"transformation_destroy", "device_close">>

FinalizeCalls == <<"transformation_destroy", "stop_cameras", "device_close">>

Issued(calls, c) == \E i \in DOMAIN calls : calls[i] = c

finalize(next) ==
    \/ /\ teardown' = teardown \o FinalizeCalls
       /\ transformation' = IF Issued(FinalizeCalls, "transformation_destroy")
                               /\ transformation # "null"
                            THEN "destroyed" ELSE transformation
       /\ cameras' = IF Issued(FinalizeCalls, "stop_cameras") THEN "stopped" ELSE cameras
       /\ device' = IF Issued(FinalizeCalls, "device_close") THEN "closed" ELSE device
       /\ pc' = next
    \/ /\ device = "closed"
       /\ \E n \in 1..Len(FinalizeCalls) :
              teardown' = teardown \o SubSeq(FinalizeCalls, 1, n)
       /\ pc' = "crashed"
       /\ UNCHANGED session

\* Where control goes when the capture fetch reports a hard failure (throw)
\* and when it reports a timeout (the explicit destructor call returns and
\* update() carries on).
\* A hard failure that is not thrown: update() carries on.
AfterFetchFailed_no_throw == "update_color"

AfterFetchFailed == "unwinding"
AfterFetchTimeout == "update_color"

(***************************************************************************)
(* kinect::update_frame.  On a result other than success the SDK either    *)
(* clears the out-parameter or leaves the member as it was.                *)
(***************************************************************************)
update_frame ==
    /\ pc = "update_frame"
    /\ polled' = "none"
    /\ UNCHANGED <<transformed_size, xyz_size, installed>>
    /\ frame' = frame + 1
    /\ UNCHANGED <<color_image, depth_image, transformed_depth_image, xyz_image,
                   doubleRelease>>
    /\ \/ \* K4A_WAIT_RESULT_SUCCEEDED
          /\ device = "open"
          /\ result' = "succeeded"
          /\ capture' = frame'
          /\ live' = live \cup {<<"capture", frame'>>}
          /\ hasColor' \in BOOLEAN
          /\ hasDepth' \in BOOLEAN
          /\ \E sz \in Sizes : color_size' = IF hasColor' THEN sz ELSE NoSize
          /\ events' = <<"get_capture">>
          /\ pc' = "update_color"
          /\ UNCHANGED <<session, mats, teardown, failedCall, thrown, timedOut>>
       \/ \* K4A_WAIT_RESULT_FAILED
          /\ result' = "failed"
          /\ capture' \in {capture, NULL}
          /\ hasColor' = FALSE
          /\ hasDepth' = FALSE
          /\ color_size' = NoSize
          /\ events' = <<"get_capture">>
          /\ failedCall' = Fail("get_capture")
          /\ thrown' = TRUE
          /\ pc' = AfterFetchFailed
          /\ UNCHANGED <<session, live, mats, teardown, timedOut>>
       \/ \* K4A_WAIT_RESULT_TIMEOUT: this->~kinect() runs finalize() and
          \* destroys the cv::Mat members, then update_frame returns
          /\ result' = "timeout"
          /\ capture' \in {capture, NULL}
          /\ hasColor' = FALSE
          /\ hasDepth' = FALSE
          /\ color_size' = NoSize
          /\ events' = <<"get_capture">>
          /\ timedOut' = TRUE
          /\ finalize(AfterFetchTimeout)
          /\ color' = EmptyMat
          /\ transformed_depth' = EmptyMat
          /\ xyz' = EmptyMat
          /\ UNCHANGED <<live, failedCall, thrown>>
       \/ \* fetch on a closed device aborts
          /\ device # "open"
          /\ pc' = "crashed"
          /\ events' = <<"get_capture">>
          /\ UNCHANGED <<capture, session, live, mats, inputs, hist, color_size>>

(***************************************************************************)
(* kinect::update_color / update_depth: take a reference to the image of   *)
(* the capture; nullptr when the capture holds none.                       *)
(***************************************************************************)
update_color ==
    /\ pc = "update_color"
    /\ UNCHANGED <<sizes, installed, polled>>
    /\ UNCHANGED <<frame, session, capture, depth_image, transformed_depth_image,
                   xyz_image, mats, inputs, hist>>
    /\ IF capture = NULL THEN
           /\ pc' = "update_depth"
           /\ UNCHANGED <<color_image, live, events>>
       ELSE IF IsLive("capture", capture) THEN
           /\ color_image' = IF hasColor THEN capture ELSE NULL
           /\ live' = IF hasColor THEN live \cup {<<"color", capture>>} ELSE live
           /\ events' = Append(events, "get_color_image")
           /\ pc' = "update_depth"
       ELSE \* released capture
           \/ /\ Crash("get_color_image")
              /\ UNCHANGED <<color_image, live>>
           \/ /\ color_image' = NULL
              /\ events' = Append(events, "get_color_image")
              /\ pc' = "update_depth"
              /\ UNCHANGED live

update_depth ==
    /\ pc = "update_depth"
    /\ UNCHANGED <<sizes, installed, polled>>
    /\ UNCHANGED <<frame, session, capture, color_image, transformed_depth_image,
                   xyz_image, mats, inputs, hist>>
    /\ IF capture = NULL THEN
           /\ pc' = "update_transformation"
           /\ UNCHANGED <<depth_image, live, events>>
       ELSE IF IsLive("capture", capture) THEN
           /\ depth_image' = IF hasDepth THEN capture ELSE NULL
           /\ live' = IF hasDepth THEN live \cup {<<"depth", capture>>} ELSE live
           /\ events' = Append(events, "get_depth_image")
           /\ pc' = "update_transformation"
       ELSE \* released capture
           \/ /\ Crash("get_depth_image")
              /\ UNCHANGED <<depth_image, live>>
           \/ /\ depth_image' = NULL
              /\ events' = Append(events, "get_depth_image")
              /\ pc' = "update_transformation"
              /\ UNCHANGED live

(***************************************************************************)
(* The transform calls of the SDK.  A null transformation is rejected      *)
(* (failure); a destroyed transformation or a released input image is      *)
(* undefined: abort, rejection or apparent success.                        *)
(***************************************************************************)
TransformUndefined(kind, h) == transformation = "destroyed" \/ IsStale(kind, h)
TransformMaySucceed == transformation # "null"

\* Width and height swapped in the image created for the registration.
TransformedDepthSize_swapped(color_wh) == <<color_wh[2], color_wh[1]>>

\* update_transformation: the transformed depth image is created with
\* color_width, color_height.
TransformedDepthSize(color_wh) == <<color_wh[1], color_wh[2]>>

\* update_point_cloud: the XYZ image is created with transformed_depth_width,
\* transformed_depth_height.
PointCloudSize(depth_wh) == <<depth_wh[1], depth_wh[2]>>

(***************************************************************************)
(* kinect::update_transformation: skipped when depth_image is nullptr;     *)
(* otherwise create an image of the color image's size and register the    *)
(* depth image into it.                                                    *)
(***************************************************************************)
update_transformation ==
    /\ pc = "update_transformation"
    /\ UNCHANGED <<color_size, xyz_size, installed, polled>>
    /\ UNCHANGED <<frame, session, capture, color_image, depth_image, xyz_image,
                   mats, inputs, teardown, doubleRelease, timedOut>>
    /\ IF depth_image = NULL THEN
           /\ pc' = "update_point_cloud"
           /\ UNCHANGED <<transformed_depth_image, live, events, failedCall, thrown, transformed_size>>
       ELSE
           \/ \* width/height query on a released color image aborts
              /\ IsStale("color", color_image)
              /\ Crash("image_get_size")
              /\ UNCHANGED <<transformed_depth_image, live, failedCall, thrown, transformed_size>>
           \/ \* k4a_image_create fails
              /\ events' = events \o <<"image_get_size", "create_transformed">>
              /\ failedCall' = Fail("image_create")
              /\ thrown' = TRUE
              /\ pc' = "unwinding"
              /\ UNCHANGED <<transformed_depth_image, live, transformed_size>>
           \/ \* created; the transform fails
              /\ transformed_depth_image' = frame
              /\ \E wh \in ImageSize("color", color_image, color_size) : transformed_size' = TransformedDepthSize(wh)
              /\ live' = live \cup {<<"transformed", frame>>}
              /\ events' = events \o <<"image_get_size", "create_transformed",
                                       "depth_image_to_color_camera">>
              /\ failedCall' = Fail("depth_image_to_color_camera")
              /\ thrown' = TRUE
              /\ pc' = "unwinding"
           \/ \* created; the transform aborts
              /\ TransformUndefined("depth", depth_image)
              /\ transformed_depth_image' = frame
              /\ \E wh \in ImageSize("color", color_image, color_size) : transformed_size' = TransformedDepthSize(wh)
              /\ live' = live \cup {<<"transformed", frame>>}
              /\ pc' = "crashed"
              /\ events' = events \o <<"image_get_size", "create_transformed",
                                       "depth_image_to_color_camera">>
              /\ UNCHANGED <<failedCall, thrown>>
           \/ \* created and transformed
              /\ TransformMaySucceed
              /\ transformed_depth_image' = frame
              /\ \E wh \in ImageSize("color", color_image, color_size) : transformed_size' = TransformedDepthSize(wh)
              /\ live' = live \cup {<<"transformed", frame>>}
              /\ events' = events \o <<"image_get_size", "create_transformed",
                                       "depth_image_to_color_camera">>
              /\ pc' = "update_point_cloud"
              /\ UNCHANGED <<failedCall, thrown>>

(***************************************************************************)
(* kinect::update_point_cloud: skipped when transformed_depth_image is     *)
(* nullptr; otherwise create the XYZ image and project into it.            *)
(***************************************************************************)
update_point_cloud ==
    /\ pc = "update_point_cloud"
    /\ UNCHANGED <<color_size, transformed_size, installed, polled>>
    /\ UNCHANGED <<frame, session, capture, color_image, depth_image,
                   transformed_depth_image, mats, inputs, teardown, doubleRelease,
                   timedOut>>
    /\ IF transformed_depth_image = NULL THEN
           /\ pc' = "release_capture"
           /\ UNCHANGED <<xyz_image, live, events, failedCall, thrown, xyz_size>>
       ELSE
           \/ \* width/height query on a released image aborts
              /\ IsStale("transformed", transformed_depth_image)
              /\ Crash("image_get_size")
              /\ UNCHANGED <<xyz_image, live, failedCall, thrown, xyz_size>>
           \/ \* k4a_image_create fails
              /\ events' = events \o <<"image_get_size", "create_xyz">>
              /\ failedCall' = Fail("image_create")
              /\ thrown' = TRUE
              /\ pc' = "unwinding"
              /\ UNCHANGED <<xyz_image, live, xyz_size>>
           \/ \* created; the transform fails
              /\ xyz_image' = frame
              /\ \E wh \in ImageSize("transformed", transformed_depth_image, transformed_size) : xyz_size' = PointCloudSize(wh)
              /\ live' = live \cup {<<"xyz", frame>>}
              /\ events' = events \o <<"image_get_size", "create_xyz",
                                       "depth_image_to_point_cloud">>
              /\ failedCall' = Fail("depth_image_to_point_cloud")
              /\ thrown' = TRUE
              /\ pc' = "unwinding"
           \/ \* created; the transform aborts
              /\ TransformUndefined("transformed", transformed_depth_image)
              /\ xyz_image' = frame
              /\ \E wh \in ImageSize("transformed", transformed_depth_image, transformed_size) : xyz_size' = PointCloudSize(wh)
              /\ live' = live \cup {<<"xyz", frame>>}
              /\ pc' = "crashed"
              /\ events' = events \o <<"image_get_size", "create_xyz",
                                       "depth_image_to_point_cloud">>
              /\ UNCHANGED <<failedCall, thrown>>
           \/ \* created and transformed
              /\ TransformMaySucceed
              /\ xyz_image' = frame
              /\ \E wh \in ImageSize("transformed", transformed_depth_image, transformed_size) : xyz_size' = PointCloudSize(wh)
              /\ live' = live \cup {<<"xyz", frame>>}
              /\ events' = events \o <<"image_get_size", "create_xyz",
                                       "depth_image_to_point_cloud">>
              /\ pc' = "release_capture"
              /\ UNCHANGED <<failedCall, thrown>>

(***************************************************************************)
(* A release call of the SDK on member h of the given kind, then control   *)
(* moves to `next`.  nullptr is rejected by the SDK; a released handle is  *)
(* released a second time, which is undefined (abort or rejection).        *)
(***************************************************************************)
release(kind, h, ev, next) ==
    IF h = NULL \/ IsLive(kind, h) THEN
        /\ live' = live \ {<<kind, h>>}
        /\ events' = Append(events, ev)
        /\ doubleRelease' = doubleRelease
        /\ pc' = next
    ELSE
        /\ doubleRelease' = TRUE
        /\ live' = live
        /\ \/ Crash(ev)
           \/ /\ events' = Append(events, ev)
              /\ pc' = next

\* update() without its release of the capture.
release_capture_missing ==
    /\ pc = "release_capture"
    /\ pc' = "draw_color"
    /\ UNCHANGED <<frame, session, handles, live, mats, inputs, events, hist, sizes,
                   installed, polled>>

\* kinect::update, last statement: k4a_capture_release( capture ).
release_capture ==
    /\ pc = "release_capture"
    /\ UNCHANGED <<sizes, installed, polled>>
    /\ release("capture", capture, "capture_release", "draw_color")
    /\ UNCHANGED <<frame, session, handles, mats, inputs, teardown, failedCall,
                   thrown, timedOut>>

\* util.h, k4a_get_mat: a cv::Mat holding a copy of the image's pixels.
k4a_get_mat(h) == [src |-> h, remaps |-> 0]

\* The cv::Mat a draw step obtains from member h: the conversion of a
\* released image yields arbitrary pixels or, when the SDK rejects the
\* handle, an empty Mat.
ConvertedMat(kind, h) ==
    IF IsLive(kind, h) THEN {k4a_get_mat(h)} ELSE {k4a_get_mat(h), EmptyMat}

(***************************************************************************)
(* kinect::draw_*: skipped when the member is nullptr; otherwise convert   *)
(* the image to a cv::Mat and release the image handle.                    *)
(***************************************************************************)
draw_color ==
    /\ pc = "draw_color"
    /\ UNCHANGED <<sizes, installed, polled>>
    /\ UNCHANGED <<frame, session, handles, transformed_depth, xyz, inputs,
                   teardown, failedCall, thrown, timedOut>>
    /\ IF color_image = NULL THEN
           /\ pc' = "draw_depth"
           /\ UNCHANGED <<color, live, events, doubleRelease>>
       ELSE
           /\ color' \in ConvertedMat("color", color_image)
           /\ release("color", color_image, "release_color", "draw_depth")

\* draw_depth without its release call.
draw_depth_no_release ==
    /\ pc = "draw_depth"
    /\ UNCHANGED <<sizes, installed, polled>>
    /\ pc' = "draw_transformation"
    /\ UNCHANGED <<frame, session, handles, live, mats, inputs, events, hist>>

draw_depth ==
    /\ pc = "draw_depth"
    /\ UNCHANGED <<sizes, installed, polled>>
    /\ UNCHANGED <<frame, session, handles, mats, inputs,
                   teardown, failedCall, thrown, timedOut>>
    /\ IF depth_image = NULL THEN
           /\ pc' = "draw_transformation"
           /\ UNCHANGED <<live, events, doubleRelease>>
       ELSE
           release("depth", depth_image, "release_depth", "draw_transformation")

\* draw_transformation guarded by depth_image instead of transformed_depth_image.
draw_transformation_depth_guard ==
    /\ pc = "draw_transformation"
    /\ UNCHANGED <<sizes, installed, polled>>
    /\ UNCHANGED <<frame, session, handles, color, xyz, inputs,
                   teardown, failedCall, thrown, timedOut>>
    /\ IF depth_image = NULL THEN
           /\ pc' = "draw_point_cloud"
           /\ UNCHANGED <<transformed_depth, live, events, doubleRelease>>
       ELSE
           /\ transformed_depth' \in ConvertedMat("transformed", transformed_depth_image)
           /\ release("transformed", transformed_depth_image, "release_transformed",
                      "draw_point_cloud")

draw_transformation ==
    /\ pc = "draw_transformation"
    /\ UNCHANGED <<sizes, installed, polled>>
    /\ UNCHANGED <<frame, session, handles, color, xyz, inputs,
                   teardown, failedCall, thrown, timedOut>>
    /\ IF transformed_depth_image = NULL THEN
           /\ pc' = "draw_point_cloud"
           /\ UNCHANGED <<transformed_depth, live, events, doubleRelease>>
       ELSE
           /\ transformed_depth' \in ConvertedMat("transformed", transformed_depth_image)
           /\ release("transformed", transformed_depth_image, "release_transformed",
                      "draw_point_cloud")

draw_point_cloud ==
    /\ pc = "draw_point_cloud"
    /\ UNCHANGED <<sizes, installed, polled>>
    /\ UNCHANGED <<frame, session, handles, color, transformed_depth, inputs,
                   teardown, failedCall, thrown, timedOut>>
    /\ IF xyz_image = NULL THEN
           /\ pc' = "show_color"
           /\ UNCHANGED <<xyz, live, events, doubleRelease>>
       ELSE
           /\ xyz' \in ConvertedMat("xyz", xyz_image)
           /\ release("xyz", xyz_image, "release_xyz", "show_color")

(***************************************************************************)
(* kinect::show_*: skipped when the cv::Mat is empty.                      *)
(***************************************************************************)
show_color ==
    /\ pc = "show_color"
    /\ UNCHANGED <<sizes, installed, polled>>
    /\ pc' = "show_transformation"
    /\ events' = IF empty(color) THEN events ELSE Append(events, "imshow_color")
    /\ UNCHANGED <<frame, session, handles, live, mats, inputs, hist>>

\* convertTo( transformed_depth, CV_8U, ... ) remaps the member in place.
show_transformation ==
    /\ pc = "show_transformation"
    /\ UNCHANGED <<sizes, installed, polled>>
    /\ pc' = "show_point_cloud"
    /\ IF empty(transformed_depth) THEN
           UNCHANGED <<transformed_depth, events>>
       ELSE
           /\ transformed_depth' =
                  [transformed_depth EXCEPT !.remaps = transformed_depth.remaps + 1]
           /\ events' = Append(events, "imshow_transformed_depth")
    /\ UNCHANGED <<frame, session, handles, live, color, xyz, inputs, hist>>

show_point_cloud ==
    /\ pc = "show_point_cloud"
    /\ UNCHANGED <<sizes, installed, polled>>
    /\ pc' = "wait_key"
    /\ events' = IF empty(xyz) \/ empty(color) THEN events
                 ELSE Append(events, "show_cloud")
    /\ UNCHANGED <<frame, session, handles, live, mats, inputs, hist>>

(***************************************************************************)
(* kinect::run, end of the loop body: poll the key and the viewer; break   *)
(* on 'q' or on a stopped viewer, otherwise start the next iteration.      *)
(***************************************************************************)
\* The state of the viewer left out of the exit condition.
ExitRequested_key_only(key, wasStopped) == key = "q"

\* run: break on 'q' and on a stopped viewer.
ExitRequested(key, wasStopped) == key = "q" \/ wasStopped

wait_key ==
    /\ pc = "wait_key"
    /\ UNCHANGED <<sizes, installed>>
    /\ events' = Append(events, "wait_key")
    /\ \E key \in {"q", "other"}, wasStopped \in BOOLEAN :
           /\ polled' = IF key = "q" THEN "q"
                        ELSE IF wasStopped THEN "stopped" ELSE "continue"
           /\ IF ExitRequested(key, wasStopped) THEN pc' = "returned"
              ELSE frame < MaxFrames /\ pc' = "update_frame"
    /\ UNCHANGED <<frame, session, handles, live, mats, inputs, hist>>

\* The caller of the object: it lets the object go out of scope when run()
\* returns and when an exception propagates out of run().
ObjectLeavesScope == pc \in {"returned", "unwinding"}

\* kinect::~kinect: finalize(), then the members are destroyed.
destructor ==
    /\ ObjectLeavesScope
    /\ UNCHANGED <<sizes, installed, polled>>
    /\ finalize("done")
    /\ color' = EmptyMat
    /\ transformed_depth' = EmptyMat
    /\ xyz' = EmptyMat
    /\ UNCHANGED <<frame, handles, live, inputs, events, failedCall, thrown,
                   doubleRelease, timedOut>>

Next ==
    \/ construct
    \/ update_frame
    \/ update_color
    \/ update_depth
    \/ update_transformation
    \/ update_point_cloud
    \/ release_capture
    \/ draw_color
    \/ draw_depth
    \/ draw_transformation
    \/ draw_point_cloud
    \/ show_color
    \/ show_transformation
    \/ show_point_cloud
    \/ wait_key
    \/ destructor

Spec == Init /\ [][Next]_vars

TypeOK ==
    /\ pc \in RunningPcs \cup {"construct", "returned", "unwinding", "done", "crashed"}
    /\ frame \in 0..MaxFrames
    /\ device \in {"null", "open", "closed"}
    /\ transformation \in {"null", "valid", "destroyed"}
    /\ capture \in 0..MaxFrames

(***************************************************************************)
(*                              Properties                                 *)
(***************************************************************************)

\* C1: when a frame's capture fetch is about to begin, every handle acquired
\* in the earlier frames (capture, color, depth, transformed depth, point
\* cloud) has been released: no acquired handle is still unreleased.
C1_NoLeakAcrossFrames == pc = "update_frame" => live = {}

\* A second frame is about to start after a frame that acquired and released
\* all five kinds of handle.
C1_Witness ==
    /\ pc = "update_frame"
    /\ frame >= 1
    /\ hasColor /\ hasDepth
    /\ Did("capture_release") /\ Did("release_color") /\ Did("release_depth")
    /\ Did("release_transformed") /\ Did("release_xyz")

\* C2: no release call is ever issued on a handle that was already released.
C2_ReleasedOnce == ~doubleRelease

\* C3: in a frame whose capture has no depth image, no transformed-depth or
\* point-cloud image is created or transformed and neither the
\* transformed-depth window nor the point-cloud widget is updated.
C3_NoDepthSkips ==
    (result = "succeeded" /\ ~hasDepth) =>
        /\ ~Did("create_transformed")
        /\ ~Did("depth_image_to_color_camera")
        /\ ~Did("create_xyz")
        /\ ~Did("depth_image_to_point_cloud")
        /\ ~Did("imshow_transformed_depth")
        /\ ~Did("show_cloud")

\* C4: in a frame whose capture has no color image, neither the color window
\* nor the point-cloud widget is updated.
C4_NoColorSkips ==
    (result = "succeeded" /\ ~hasColor) =>
        /\ ~Did("imshow_color")
        /\ ~Did("show_cloud")

\* C5: once a capture fetch has returned a timeout the session is torn down
\* (transformation destroyed, device closed) and no further capture fetch is
\* issued.
C5_TimeoutEndsLoop ==
    /\ [](timedOut => device = "closed" /\ transformation # "valid")
    /\ [][timedOut => frame' = frame]_vars

\* C6: when startup ends with a fatal SDK failure, the device is not left
\* open in the terminal state.
C6_StartupFailureClosesDevice ==
    (pc = "done" /\ thrown /\ frame = 0) => device # "open"

\* C7: on the paths that leave the running state (exit key, viewer closed,
\* capture timeout, fatal failure) the shutdown has destroyed the
\* transformation, stopped the cameras and closed the device, in that order
\* and none skipped; teardown calls are never issued in another order.
C7_ShutdownInOrder ==
    /\ \A i \in DOMAIN teardown :
           teardown[i] = <<"transformation_destroy", "stop_cameras",
                           "device_close">>[((i - 1) % 3) + 1]
    /\ ((pc = "done" /\ frame >= 1) \/ timedOut) =>
           /\ Len(teardown) >= 3
           /\ device = "closed"
           /\ cameras = "stopped"
           /\ transformation # "valid"

\* The session ended through a fatal failure raised in the running state and
\* was shut down once.
C7_Witness ==
    /\ pc = "done"
    /\ frame >= 1
    /\ thrown
    /\ Len(teardown) = 3

\* C8: a frame whose capture lacks the depth image is not fatal: no error is
\* raised, the process does not abort, and no create or transform call (the
\* stages that need the depth image) is issued in it.
C8_MissingImageNotFatal ==
    (result = "succeeded" /\ ~hasDepth) =>
        /\ ~thrown
        /\ pc # "crashed"
        /\ ~Did("create_transformed")
        /\ ~Did("create_xyz")

\* C9: once one of open, start-cameras, create-transformation, create-image
\* or a transform has failed, an error has been raised and the program is
\* not in the running state.
C9_FailureIsFatal ==
    failedCall \in {"device_open", "start_cameras", "transformation_create",
                    "image_create", "depth_image_to_color_camera",
                    "depth_image_to_point_cloud"}
        => thrown /\ pc \notin RunningPcs

\* C10: when the capture fetch reports a hard failure an error is raised, no
\* other step of that frame is executed, the loop is not resumed (so no
\* further fetch), and the session ends in shutdown.
C10_FetchFailureUnwinds ==
    result = "failed" =>
        /\ thrown
        /\ events = <<"get_capture">>
        /\ \/ pc = "unwinding"
           \/ pc = "done" /\ Len(teardown) >= 3 /\ device = "closed"
           \/ pc = "crashed" /\ timedOut /\ Len(teardown) > 3

\* A fetch failed in a later frame, after a complete frame, and the session
\* was shut down.
C10_Witness ==
    /\ result = "failed"
    /\ frame >= 2
    /\ pc = "done"
    /\ ~timedOut

\* C11: in a frame whose capture has a color image of size W x H and a depth
\* image, the transformed depth image and the point-cloud image created in
\* that frame both have width W and height H, and when the iteration has
\* presented, the color window, the transformed-depth window and the
\* point-cloud widget have each been updated exactly once.
C11_SizesAndUpdates ==
    (result = "succeeded" /\ hasColor /\ hasDepth) =>
        /\ transformed_depth_image = frame => transformed_size = color_size
        /\ xyz_image = frame => xyz_size = color_size
        /\ Count("imshow_color") <= 1
        /\ Count("imshow_transformed_depth") <= 1
        /\ Count("show_cloud") <= 1
        /\ pc \in {"wait_key", "returned"} =>
               /\ transformed_depth_image = frame /\ xyz_image = frame
               /\ Count("imshow_color") = 1
               /\ Count("imshow_transformed_depth") = 1
               /\ Count("show_cloud") = 1

\* A frame with a 2 x 1 color image and a depth image has been presented.
C11_Witness ==
    /\ pc = "wait_key"
    /\ result = "succeeded" /\ hasColor /\ hasDepth
    /\ color_size = <<2, 1>>
    /\ transformed_size = <<2, 1>>
    /\ xyz_size = <<2, 1>>
    /\ Count("show_cloud") = 1

\* C12: when the installed-device count is zero, initialization has failed
\* with an error after the count query alone: no open, start-cameras,
\* calibration or transformation-create call was made and the running state
\* is never entered.
C12_NoDeviceFailsFirst ==
    installed = 0 =>
        /\ thrown
        /\ pc = "done"
        /\ events = <<"get_installed_count">>
        /\ device = "null"
        /\ cameras = "off"
        /\ transformation = "null"
        /\ frame = 0

\* The count was read as zero and startup has ended.
C12_Witness == installed = 0 /\ pc = "done" /\ failedCall = "no_device"

\* Position of a call in the fixed order of one iteration (0: not a step
\* of the order).
StepRank(e) ==
    CASE e = "get_capture" -> 1
      [] e = "get_color_image" -> 2
      [] e = "get_depth_image" -> 3
      [] e = "create_transformed" -> 4
      [] e = "depth_image_to_color_camera" -> 5
      [] e = "create_xyz" -> 6
      [] e = "depth_image_to_point_cloud" -> 7
      [] e = "capture_release" -> 8
      [] e = "release_color" -> 9
      [] e = "release_depth" -> 10
      [] e = "release_transformed" -> 11
      [] e = "release_xyz" -> 12
      [] e = "imshow_color" -> 13
      [] e = "imshow_transformed_depth" -> 14
      [] e = "show_cloud" -> 15
      [] e = "wait_key" -> 16
      [] OTHER -> 0

\* C13: the calls of an iteration occur in the order acquire, extract color,
\* extract depth, register, project, release capture, draw, show; the capture
\* is released after both images were extracted from it and before any image
\* is converted or shown.
C13_StepOrder ==
    /\ \A i, j \in DOMAIN events :
           (i < j /\ StepRank(events[i]) > 0 /\ StepRank(events[j]) > 0)
               => StepRank(events[i]) < StepRank(events[j])
    /\ (result = "succeeded" /\ Did("capture_release"))
           => Did("get_color_image") /\ Did("get_depth_image")
    /\ pc \in DrawPcs \cup ShowPcs \cup {"wait_key"} => Did("capture_release")
    /\ \A i \in DOMAIN events : StepRank(events[i]) > 8 => Did("capture_release")

\* An iteration that issued every step, up to the point-cloud widget.
C13_Witness ==
    /\ pc = "wait_key"
    /\ frame >= 2
    /\ Did("get_color_image") /\ Did("get_depth_image")
    /\ Did("depth_image_to_color_camera") /\ Did("depth_image_to_point_cloud")
    /\ Did("capture_release") /\ Did("release_xyz") /\ Did("show_cloud")

\* C14: the exit condition is polled once per iteration, as its last step; on
\* 'q' or a stopped viewer the loop has ended and no capture fetch follows;
\* otherwise the next iteration starts, with exactly one capture fetch.
C14_ExitPolledOnce ==
    /\ Count("wait_key") <= 1
    /\ Count("get_capture") <= 1
    /\ (pc \in RunningPcs \ {"update_frame"}) => Count("get_capture") = 1
    /\ Did("wait_key") <=> polled # "none"
    /\ Did("wait_key") => events[Len(events)] = "wait_key"
    /\ polled \in {"q", "stopped"} => pc \in {"returned", "done", "crashed"}
    /\ polled = "continue" => pc = "update_frame"
    /\ pc = "returned" => polled \in {"q", "stopped"}
    /\ (pc = "update_frame" /\ frame >= 1) => polled = "continue"

\* The viewer was reported stopped at the end of a later iteration and run()
\* has returned.
C14_Witness == pc = "returned" /\ polled = "stopped" /\ frame >= 2

\* C15: when the process ends after a fatal condition raised in a frame, the
\* handles obtained in that frame have been released.
C15_FatalReleasesFrameHandles ==
    (pc = "done" /\ thrown /\ frame >= 1) => live = {}

\* C16: every SDK call is given valid handles: the capture fetch an open
\* device, a transform a transformation that is not destroyed, and every
\* accessor, transform, conversion and release a handle that is not released.
C16_NoUseAfterRelease ==
    /\ pc = "update_frame" => device = "open"
    /\ pc \in {"update_color", "update_depth", "release_capture"}
           => ~IsStale("capture", capture)
    /\ (pc = "update_transformation" /\ depth_image # NULL) =>
           /\ ~IsStale("depth", depth_image)
           /\ ~IsStale("color", color_image)
           /\ transformation # "destroyed"
    /\ (pc = "update_point_cloud" /\ transformed_depth_image # NULL) =>
           /\ ~IsStale("transformed", transformed_depth_image)
           /\ transformation # "destroyed"
    /\ pc = "draw_color" => ~IsStale("color", color_image)
    /\ pc = "draw_depth" => ~IsStale("depth", depth_image)
    /\ pc = "draw_transformation" => ~IsStale("transformed", transformed_depth_image)
    /\ pc = "draw_point_cloud" => ~IsStale("xyz", xyz_image)

\* C17: over the session each teardown call (destroy transformation, stop
\* cameras, close device) is issued at most once.
C17_TeardownOnce ==
    \A c \in {"transformation_destroy", "stop_cameras", "device_close"} :
        Cardinality({i \in DOMAIN teardown : teardown[i] = c}) <= 1

\* C18: the 8-bit remap is never applied to a buffer that was already
\* remapped, and while the object exists a buffer shown in the
\* transformed-depth window was converted in the same iteration and remapped
\* exactly once.
C18_RemapOnce ==
    /\ transformed_depth.remaps <= 1
    /\ (Did("imshow_transformed_depth") /\ pc \in RunningPcs \cup {"returned"}) =>
           /\ transformed_depth.remaps = 1
           /\ Did("release_transformed")

\* The transformed-depth window was updated in a frame without depth image
\* that follows a frame with one.
C18_Witness ==
    /\ result = "succeeded"
    /\ ~hasDepth
    /\ frame >= 2
    /\ Did("imshow_transformed_depth")

====
